---- MODULE Spec2Model ----
(***************************************************************************)
(* Model of merge_excel: the filename grouping (getGroupKey), the block    *)
(* collector / merge orchestrator (mergeExcelFiles) and the batch runner   *)
(* of the React component (App.tsx: groupedFiles, handleMergeAll, reset).  *)
(*                                                                         *)
(* JavaScript strings are modelled as sequences of one-character strings,  *)
(* so that String(), trim(), the regular expressions and localeCompare     *)
(* are computed, not assumed.                                              *)
(***************************************************************************)
EXTENDS Integers, Sequences, FiniteSets, TLC

VARIABLES
    mode,           \* which entry point the behaviour exercises
    \* --- getGroupKey ---
    filename,       \* the argument
    groupKey,       \* the returned key, as a sequence of length 0 (not called) or 1
    \* --- naturalSort ---
    skeys,          \* the array of identifiers passed to sort(naturalSort)
    compared,       \* naturalSort(skeys[0], skeys[1]), as a sequence of length 0 or 1
    sorted,         \* the sorted array, as a sequence of length 0 (not called) or 1
    \* --- mergeExcelFiles ---
    mfiles,         \* the argument files (File[])
    mpc,            \* "idle" | "reading" | "resolved" | "rejected"
    mj,             \* index of the file whose arrayBuffer() is awaited
    koseiGroups,    \* Map<string, any[][]> in insertion order
    naiyoGroups,    \* Map<string, any[][]> in insertion order
    koseiHeaders,   \* any[]
    naiyoHeaders,   \* any[]
    masterTempre,   \* WorkSheet | null, as a sequence of length 0 or 1
    mresult,        \* the sheets handed to XLSX.write, as a sequence of length 0 or 1
    \* --- App ---
    files,          \* useState<ExcelFile[]>
    status,         \* useState<ProcessingStatus>
    hpc,            \* handleMergeAll: "idle" | "awaiting" | "done"
    closure,        \* files and groupedFiles of the render handleMergeAll was created in
    groupKeys,      \* handleMergeAll: Object.keys(groupedFiles)
    gi,             \* handleMergeAll: the loop index i, plus one
    results,        \* handleMergeAll: the local results array
    objectUrls,     \* URL.createObjectURL / revokeObjectURL: url -> blob, revoked
    nextId          \* the ids generated so far, plus one

keyVars == <<filename, groupKey>>

sortVars == <<skeys, compared, sorted>>

mergeVars == <<mfiles, mpc, mj, koseiGroups, naiyoGroups, koseiHeaders, naiyoHeaders,
               masterTempre, mresult>>

appVars == <<files, status, hpc, closure, groupKeys, gi, results, objectUrls, nextId>>

vars == <<mode, keyVars, sortVars, mergeVars, appVars>>

-----------------------------------------------------------------------------
(* Bounds of the model.                                                    *)

MaxFiles == 2       \* files in one merge group
MaxRows == 3        \* data rows of the varied governed sheet, summed over a group
MaxNameLen == 6     \* characters of a file name passed to getGroupKey
MaxUploads == 3     \* files uploaded to the component, over its lifetime
MaxUrls == 2        \* object URLs created before the last batch run starts
MaxIdLen == 2       \* characters of each of two identifiers passed to naturalSort
MaxSortLen == 3     \* identifiers in an array passed to sort(naturalSort)

-----------------------------------------------------------------------------
(* Strings and cell values.                                                *)

Digits == <<"0", "1", "2", "3", "4", "5", "6", "7", "8", "9">>

IsDigit(c) == \E i \in 1..10 : Digits[i] = c

DigitVal(c) == (CHOOSE i \in 1..10 : Digits[i] = c) - 1

IsSpace(c) == c = " "

\* A cell of a decoded row: a string or a number (sheet_to_json, defval: "").
Str(s) == [t |-> "str", v |-> s]

Num(n) == [t |-> "num", v |-> n]

EmptyCell == Str(<<>>)

RECURSIVE DigitsOf(_)
DigitsOf(n) == IF n < 10 THEN <<Digits[n + 1]>>
               ELSE DigitsOf(n \div 10) \o <<Digits[(n % 10) + 1]>>

\* String(value)
StringOf(cell) == IF cell.t = "num" THEN DigitsOf(cell.v) ELSE cell.v

\* JavaScript truthiness of a cell value: "" and 0 are falsy.
Truthy(cell) == IF cell.t = "num" THEN cell.v # 0 ELSE cell.v # <<>>

RECURSIVE TrimStart(_)
TrimStart(s) == IF s # <<>> /\ IsSpace(Head(s)) THEN TrimStart(Tail(s)) ELSE s

RECURSIVE TrimEnd(_)
TrimEnd(s) == IF s # <<>> /\ IsSpace(s[Len(s)])
              THEN TrimEnd(SubSeq(s, 1, Len(s) - 1)) ELSE s

\* String.prototype.trim
Trim(s) == TrimEnd(TrimStart(s))

-----------------------------------------------------------------------------
(* naturalSort: localeCompare(b, undefined, {numeric: true,                *)
(* sensitivity: 'base'}).  Primary-strength comparison: white space sorts  *)
(* before digits, digits before letters; a run of digits is one element    *)
(* compared by numeric value; letters compare without case.                *)

Lower(c) == IF c = "Q" THEN "q" ELSE IF c = "A" THEN "a" ELSE c

LetterRank(c) == IF Lower(c) = "a" THEN 1 ELSE IF Lower(c) = "q" THEN 17 ELSE 27

RECURSIVE DigitRunLen(_)
DigitRunLen(s) == IF s # <<>> /\ IsDigit(Head(s)) THEN 1 + DigitRunLen(Tail(s)) ELSE 0

RECURSIVE NumVal(_)
NumVal(s) == IF s = <<>> THEN 0
             ELSE 10 * NumVal(SubSeq(s, 1, Len(s) - 1)) + DigitVal(s[Len(s)])

\* The primary collation elements of a string: <<class, weight>> pairs.
RECURSIVE CollationElements(_)
CollationElements(s) ==
    IF s = <<>> THEN <<>>
    ELSE IF IsDigit(Head(s))
         THEN LET n == DigitRunLen(s)
              IN <<<<1, NumVal(SubSeq(s, 1, n))>>>> \o
                 CollationElements(SubSeq(s, n + 1, Len(s)))
         ELSE IF IsSpace(Head(s))
              THEN <<<<0, 0>>>> \o CollationElements(Tail(s))
              ELSE <<<<2, LetterRank(Head(s))>>>> \o CollationElements(Tail(s))

RECURSIVE CompareElements(_, _)
CompareElements(x, y) ==
    IF x = <<>> THEN (IF y = <<>> THEN 0 ELSE -1)
    ELSE IF y = <<>> THEN 1
    ELSE IF Head(x)[1] # Head(y)[1] THEN (IF Head(x)[1] < Head(y)[1] THEN -1 ELSE 1)
    ELSE IF Head(x)[2] # Head(y)[2] THEN (IF Head(x)[2] < Head(y)[2] THEN -1 ELSE 1)
    ELSE CompareElements(Tail(x), Tail(y))

\* Mutant of naturalSort: without numeric: true, every digit is an element
\* of its own.
naturalSortByCharacter(a, b) ==
    LET elements(s) == [i \in 1..Len(s) |->
                          IF IsDigit(s[i]) THEN <<1, DigitVal(s[i])>>
                          ELSE IF IsSpace(s[i]) THEN <<0, 0>>
                          ELSE <<2, LetterRank(s[i])>>]
    IN CompareElements(elements(a), elements(b))

naturalSort(a, b) == CompareElements(CollationElements(a), CollationElements(b))

\* Array.prototype.sort(naturalSort): a stable sort.
RECURSIVE InsertSorted(_, _)
InsertSorted(arr, k) ==
    IF arr = <<>> THEN <<k>>
    ELSE IF naturalSort(arr[Len(arr)], k) <= 0 THEN Append(arr, k)
    ELSE Append(InsertSorted(SubSeq(arr, 1, Len(arr) - 1), k), arr[Len(arr)])

\* Mutant of SortKeys: the keys are left in Map insertion order.
SortKeysInsertionOrder(keys) == keys

RECURSIVE SortKeys(_)
SortKeys(keys) ==
    IF keys = <<>> THEN <<>>
    ELSE InsertSorted(SortKeys(SubSeq(keys, 1, Len(keys) - 1)), keys[Len(keys)])

-----------------------------------------------------------------------------
(* getGroupKey.                                                            *)

IsLineTerminator(c) == c = "\n"

\* The index at which /\.[^/.]+$/ matches, in a set of at most one element:
\* a "." followed, up to the end, by one or more characters other than "/"
\* and ".".
ExtensionMatch(s) ==
    { i \in 1..Len(s) : /\ s[i] = "."
                        /\ i < Len(s)
                        /\ \A j \in (i + 1)..Len(s) : s[j] # "/" /\ s[j] # "." }

\* filename.replace(/\.[^/.]+$/, "")
NameWithoutExt(s) ==
    IF ExtensionMatch(s) = {} THEN s
    ELSE SubSeq(s, 1, (CHOOSE i \in ExtensionMatch(s) : TRUE) - 1)

\* The index of the separator in a match of /^(.*)[_\-]\d+$/, in a set of at
\* most one element; "." matches no line terminator.
SuffixMatch(s) ==
    { i \in 1..Len(s) : /\ s[i] \in {"_", "-"}
                        /\ i < Len(s)
                        /\ \A j \in (i + 1)..Len(s) : IsDigit(s[j])
                        /\ \A j \in 1..(i - 1) : ~IsLineTerminator(s[j]) }

\* Mutant of getGroupKey: the numeric suffix is removed as often as it occurs.
RECURSIVE getGroupKeyStripAll(_)
getGroupKeyStripAll(name) ==
    LET nameWithoutExt == NameWithoutExt(name)
    IN IF SuffixMatch(nameWithoutExt) = {} THEN nameWithoutExt
       ELSE getGroupKeyStripAll(
                SubSeq(nameWithoutExt, 1,
                       (CHOOSE i \in SuffixMatch(nameWithoutExt) : TRUE) - 1))

\* match ? match[1] : nameWithoutExt
getGroupKey(name) ==
    LET nameWithoutExt == NameWithoutExt(name)
    IN IF SuffixMatch(nameWithoutExt) = {} THEN nameWithoutExt
       ELSE SubSeq(nameWithoutExt, 1,
                   (CHOOSE i \in SuffixMatch(nameWithoutExt) : TRUE) - 1)

-----------------------------------------------------------------------------
(* Workbooks.  XLSX.read yields workbook.Sheets, a mapping from sheet name *)
(* to sheet; a governed sheet is modelled by the row matrix sheet_to_json  *)
(* (header: 1, defval: "") returns for it, the pass-through sheet by an    *)
(* opaque handle.  A file whose bytes XLSX.read rejects has ok = FALSE.    *)

KOSEI == "kosei"

NAIYO == "naiyo"

TEMPRE == "tempre"

KoseiColumn == 4

NaiyoColumn == 0

\* row.some(cell => cell !== "")
RowHasContent(row) == \E i \in 1..Len(row) : row[i] # EmptyCell

\* String(row[idx] || "").trim()
QVal(row, idx) ==
    Trim(StringOf(IF idx + 1 <= Len(row) /\ Truthy(row[idx + 1])
                  THEN row[idx + 1] ELSE EmptyCell))

\* Map.prototype.has
MapHas(groups, key) == \E i \in 1..Len(groups) : groups[i].key = key

\* Map.prototype.get
MapGet(groups, key) == groups[CHOOSE i \in 1..Len(groups) : groups[i].key = key].rows

\* Mutant of MapPush: unshift instead of push.
MapPushFront(groups, key, row) ==
    IF MapHas(groups, key)
    THEN [i \in 1..Len(groups) |->
            IF groups[i].key = key
            THEN [key |-> key, rows |-> <<row>> \o groups[i].rows]
            ELSE groups[i]]
    ELSE Append(groups, [key |-> key, rows |-> <<row>>])

\* if (!groups.has(k)) groups.set(k, []); groups.get(k).push(row)
MapPush(groups, key, row) ==
    IF MapHas(groups, key)
    THEN [i \in 1..Len(groups) |->
            IF groups[i].key = key
            THEN [key |-> key, rows |-> Append(groups[i].rows, row)]
            ELSE groups[i]]
    ELSE Append(groups, [key |-> key, rows |-> <<row>>])

\* Array.from(groups.keys())
MapKeys(groups) == [i \in 1..Len(groups) |-> groups[i].key]

\* One iteration of "for (const row of rows)": the running identifier after
\* the row at index r of data.
NextQNum(currentQNum, row, idx) ==
    IF ~RowHasContent(row) THEN currentQNum
    ELSE IF QVal(row, idx) # <<>> THEN QVal(row, idx) ELSE currentQNum

\* Mutant of CollectRows: an entirely empty row ends the running block.
RECURSIVE CollectRowsBlankEndsBlock(_, _, _, _, _, _)
CollectRowsBlankEndsBlock(groups, fid, data, idx, r, currentQNum) ==
    IF r >= Len(data) THEN groups
    ELSE LET row == data[r + 1]
             q == NextQNum(currentQNum, row, idx)
         IN IF ~RowHasContent(row)
            THEN CollectRowsBlankEndsBlock(groups, fid, data, idx, r + 1, <<>>)
            ELSE IF q # <<>>
                 THEN CollectRowsBlankEndsBlock(
                          MapPush(groups, q, [src |-> <<fid, r>>, cells |-> row]),
                          fid, data, idx, r + 1, q)
                 ELSE CollectRowsBlankEndsBlock(groups, fid, data, idx, r + 1, q)

\* The block collector loop over data.slice(1), from data row r on, with
\* running identifier currentQNum.  A pushed row keeps its origin
\* <<file id, index in data>> next to its cells.
RECURSIVE CollectRows(_, _, _, _, _, _)
CollectRows(groups, fid, data, idx, r, currentQNum) ==
    IF r >= Len(data) THEN groups
    ELSE LET row == data[r + 1]
             q == NextQNum(currentQNum, row, idx)
         IN IF ~RowHasContent(row)
            THEN CollectRows(groups, fid, data, idx, r + 1, currentQNum)
            ELSE IF q # <<>>
                 THEN CollectRows(MapPush(groups, q, [src |-> <<fid, r>>, cells |-> row]),
                                  fid, data, idx, r + 1, q)
                 ELSE CollectRows(groups, fid, data, idx, r + 1, q)

HasSheet(wb, name) == name \in DOMAIN wb.Sheets

\* Mutant of HeadersAfter: without the "headers.length === 0" test.
HeadersAfterLastWins(headers, wb, name) ==
    IF HasSheet(wb, name) /\ Len(wb.Sheets[name]) > 0
    THEN wb.Sheets[name][1]
    ELSE headers

\* if (sheet) { data = sheet_to_json(sheet); if (data.length > 0) {
\*   if (headers.length === 0) headers = data[0]; ... } }
HeadersAfter(headers, wb, name) ==
    IF HasSheet(wb, name) /\ Len(wb.Sheets[name]) > 0 /\ Len(headers) = 0
    THEN wb.Sheets[name][1]
    ELSE headers

\* Mutant of GroupsAfter: a file without the sheet empties the map.
GroupsAfterResetOnMissing(groups, file, name, idx) ==
    IF HasSheet(file.wb, name)
    THEN IF Len(file.wb.Sheets[name]) > 0
         THEN CollectRows(groups, file.id, file.wb.Sheets[name], idx, 1, <<>>)
         ELSE groups
    ELSE <<>>

\* Mutant of GroupsAfter: currentQNum is declared outside the loop over the
\* files, so a file starts with the identifier of the block made last.
GroupsAfterCarryingIdentifier(groups, file, name, idx) ==
    IF HasSheet(file.wb, name) /\ Len(file.wb.Sheets[name]) > 0
    THEN CollectRows(groups, file.id, file.wb.Sheets[name], idx, 1,
                     IF groups = <<>> THEN <<>> ELSE groups[Len(groups)].key)
    ELSE groups

\* Mutant of GroupsAfter: without data.slice(1), row 0 is collected too.
GroupsAfterWithHeader(groups, file, name, idx) ==
    IF HasSheet(file.wb, name) /\ Len(file.wb.Sheets[name]) > 0
    THEN CollectRows(groups, file.id, file.wb.Sheets[name], idx, 0, <<>>)
    ELSE groups

\* if (sheet) { data = sheet_to_json(sheet); if (data.length > 0) {
\*   rows = data.slice(1); let currentQNum = ""; for (row of rows) ... } }
GroupsAfter(groups, file, name, idx) ==
    IF HasSheet(file.wb, name) /\ Len(file.wb.Sheets[name]) > 0
    THEN CollectRows(groups, file.id, file.wb.Sheets[name], idx, 1, <<>>)
    ELSE groups

\* Mutant of TempreAfter: without the "!masterTempre" test.
TempreAfterLastWins(tempre, wb) ==
    IF HasSheet(wb, TEMPRE) THEN <<wb.Sheets[TEMPRE]>> ELSE tempre

\* if (!masterTempre && workbook.Sheets[TEMPRE]) masterTempre = ...
TempreAfter(tempre, wb) ==
    IF tempre = <<>> /\ HasSheet(wb, TEMPRE) THEN <<wb.Sheets[TEMPRE]>> ELSE tempre

RECURSIVE ConcatBlocks(_, _)
ConcatBlocks(groups, keys) ==
    IF keys = <<>> THEN <<>>
    ELSE MapGet(groups, Head(keys)) \o ConcatBlocks(groups, Tail(keys))

\* const sorted = Array.from(groups.keys()).sort(naturalSort);
\* const final = [headers]; for (num of sorted) final.push(...groups.get(num))
FinalData(headers, groups) ==
    [header |-> headers, rows |-> ConcatBlocks(groups, SortKeys(MapKeys(groups)))]

\* The workbook passed to XLSX.write.
NewWb(kh, kg, nh, ng, tempre) ==
    [kosei |-> FinalData(kh, kg), naiyo |-> FinalData(nh, ng), tempre |-> tempre]

Min(S) == CHOOSE x \in S : \A y \in S : x <= y

Max(S) == CHOOSE x \in S : \A y \in S : x >= y

\* XLSX.utils.aoa_to_sheet(finalData): the cells of the worksheet, one row
\* of cells per array, in the order given.
AoaToSheet(final) ==
    <<final.header>> \o [i \in 1..Len(final.rows) |-> final.rows[i].cells]

\* sheet_to_json(sheet, { header: 1, defval: "" }) of a written worksheet:
\* the rows of the sheet's range (the bounding box of its cells), a cell
\* missing in a row read as "".  A worksheet without any cell is written
\* with the range A1 and is read as one row holding one "".
SheetToJson(grid) ==
    LET filled == { i \in 1..Len(grid) : Len(grid[i]) > 0 }
    IN IF filled = {} THEN << <<EmptyCell>> >>
       ELSE LET lo == Min(filled)
                hi == Max(filled)
                w == Max({ Len(grid[i]) : i \in filled })
            IN [i \in 1..(hi - lo + 1) |->
                  [c \in 1..w |-> IF c <= Len(grid[lo + i - 1])
                                  THEN grid[lo + i - 1][c] ELSE EmptyCell]]

\* XLSX.read of the bytes XLSX.write made of the workbook newWb.
ReadWritten(newWb) ==
    [ok |-> TRUE,
     Sheets |-> [name \in {KOSEI, NAIYO} \cup {nm \in {TEMPRE} : newWb.tempre # <<>>} |->
                    IF name = KOSEI THEN SheetToJson(AoaToSheet(newWb.kosei))
                    ELSE IF name = NAIYO THEN SheetToJson(AoaToSheet(newWb.naiyo))
                    ELSE newWb.tempre[1]]]

-----------------------------------------------------------------------------
(* mergeExcelFiles as a process: one step per awaited file.arrayBuffer().  *)

\* The call: the declarations, then either the first await or, for an
\* empty list, the whole function body.
MergeCalled(fileList) ==
    /\ mfiles' = fileList
    /\ mj' = 1
    /\ koseiGroups' = <<>>
    /\ naiyoGroups' = <<>>
    /\ koseiHeaders' = <<>>
    /\ naiyoHeaders' = <<>>
    /\ masterTempre' = <<>>
    /\ IF fileList = <<>>
       THEN /\ mpc' = "resolved"
            /\ mresult' = <<NewWb(<<>>, <<>>, <<>>, <<>>, <<>>)>>
       ELSE /\ mpc' = "reading"
            /\ mresult' = <<>>

\* Mutant of MergeDecodeFails: the undecodable file is passed over.
MergeDecodeSkips ==
    /\ mpc = "reading"
    /\ ~mfiles[mj].wb.ok
    /\ IF mj < Len(mfiles)
       THEN /\ mj' = mj + 1
            /\ UNCHANGED <<mpc, mresult>>
       ELSE /\ mpc' = "resolved"
            /\ mresult' = <<NewWb(koseiHeaders, koseiGroups, naiyoHeaders, naiyoGroups,
                                  masterTempre)>>
            /\ UNCHANGED mj
    /\ UNCHANGED <<mfiles, koseiGroups, naiyoGroups, koseiHeaders, naiyoHeaders,
                   masterTempre>>
    /\ UNCHANGED <<mode, keyVars, sortVars, appVars>>

\* file.arrayBuffer() resolves; XLSX.read throws for undecodable bytes.
MergeDecodeFails ==
    /\ mpc = "reading"
    /\ ~mfiles[mj].wb.ok
    /\ mpc' = "rejected"
    /\ UNCHANGED <<mfiles, mj, koseiGroups, naiyoGroups, koseiHeaders,
                   naiyoHeaders, masterTempre, mresult>>
    /\ UNCHANGED <<mode, keyVars, sortVars, appVars>>

\* Mutant of MergeReadFile: the files are taken from the end of the list.
MergeReadFileFromEnd ==
    /\ mpc = "reading"
    /\ mfiles[Len(mfiles) + 1 - mj].wb.ok
    /\ LET file == mfiles[Len(mfiles) + 1 - mj]
           kh == HeadersAfter(koseiHeaders, file.wb, KOSEI)
           kg == GroupsAfter(koseiGroups, file, KOSEI, KoseiColumn)
           nh == HeadersAfter(naiyoHeaders, file.wb, NAIYO)
           ng == GroupsAfter(naiyoGroups, file, NAIYO, NaiyoColumn)
           tp == TempreAfter(masterTempre, file.wb)
       IN /\ koseiHeaders' = kh
          /\ koseiGroups' = kg
          /\ naiyoHeaders' = nh
          /\ naiyoGroups' = ng
          /\ masterTempre' = tp
          /\ IF mj < Len(mfiles)
             THEN /\ mj' = mj + 1
                  /\ UNCHANGED <<mpc, mresult>>
             ELSE /\ mpc' = "resolved"
                  /\ mresult' = <<NewWb(kh, kg, nh, ng, tp)>>
                  /\ UNCHANGED mj
    /\ UNCHANGED <<mode, mfiles, keyVars, sortVars, appVars>>

\* file.arrayBuffer() resolves and the file is collected; after the last
\* file the sheets are assembled and the promise resolves.
MergeReadFile ==
    /\ mpc = "reading"
    /\ mfiles[mj].wb.ok
    /\ LET file == mfiles[mj]
           kh == HeadersAfter(koseiHeaders, file.wb, KOSEI)
           kg == GroupsAfter(koseiGroups, file, KOSEI, KoseiColumn)
           nh == HeadersAfter(naiyoHeaders, file.wb, NAIYO)
           ng == GroupsAfter(naiyoGroups, file, NAIYO, NaiyoColumn)
           tp == TempreAfter(masterTempre, file.wb)
       IN /\ koseiHeaders' = kh
          /\ koseiGroups' = kg
          /\ naiyoHeaders' = nh
          /\ naiyoGroups' = ng
          /\ masterTempre' = tp
          /\ IF mj < Len(mfiles)
             THEN /\ mj' = mj + 1
                  /\ UNCHANGED <<mpc, mresult>>
             ELSE /\ mpc' = "resolved"
                  /\ mresult' = <<NewWb(kh, kg, nh, ng, tp)>>
                  /\ UNCHANGED mj
    /\ UNCHANGED <<mode, mfiles, keyVars, sortVars, appVars>>

-----------------------------------------------------------------------------
(* Inputs of mergeExcelFiles: groups of at most MaxFiles files.  In a      *)
(* group one governed sheet is varied (at most MaxRows data rows over the  *)
(* group, each file's sheet absent, empty, header only or with rows) while *)
(* the other governed sheet is the same small sheet in every file; a       *)
(* further family varies the pass-through sheet and the decodability.      *)

X == Str(<<"x">>)

\* A row of a governed sheet: designated cell d, one other cell o.
MakeRow(name, o, d) ==
    IF name = KOSEI THEN <<o, EmptyCell, EmptyCell, EmptyCell, d>> ELSE <<d, o>>

DesignatedCells ==
    { Str(<<"Q", "2">>), Str(<<"Q", "1", "0">>), Str(<<" ", "Q", "2">>), Num(0) }

RowKinds(name) ==
    { MakeRow(name, EmptyCell, EmptyCell), MakeRow(name, X, EmptyCell) }
        \cup { MakeRow(name, X, d) : d \in DesignatedCells }

\* Row 0 of the sheet of file fid: its designated column holds a label.
HeaderRow(name, fid) == MakeRow(name, Str(<<"H">> \o DigitsOf(fid)), Str(<<"Q">>))

\* The sheet, as a sequence of length 0 (absent) or 1, with t data rows.
SheetChoices(name, fid, t) ==
    IF t = 0 THEN { <<>>, << <<>> >>, << <<HeaderRow(name, fid)>> >> }
    ELSE { << <<HeaderRow(name, fid)>> \o rows >> : rows \in [1..t -> RowKinds(name)] }

FixedSheet(name, fid) ==
    <<HeaderRow(name, fid), MakeRow(name, X, EmptyCell),
      MakeRow(name, X, Str(<<"Q", "7">>)), MakeRow(name, X, EmptyCell)>>

TempreOf(fid) == [sheetOf |-> fid]

MakeWb(k, n, t) ==
    [ok |-> TRUE,
     Sheets |-> [name \in {nm \in {KOSEI} : k # <<>>} \cup {nm \in {NAIYO} : n # <<>>}
                          \cup {nm \in {TEMPRE} : t # <<>>} |->
                    IF name = KOSEI THEN k[1] ELSE IF name = NAIYO THEN n[1] ELSE t[1]]]

Corrupt == [ok |-> FALSE, Sheets |-> <<>>]

VariedFile(name, fid, sheet) ==
    [id |-> fid,
     wb |-> IF name = KOSEI THEN MakeWb(sheet, <<FixedSheet(NAIYO, fid)>>, <<>>)
            ELSE MakeWb(<<FixedSheet(KOSEI, fid)>>, sheet, <<>>)]

\* Data rows of the sheet called name in a file (0 when absent or empty).
DataRows(file, name) ==
    IF file.wb.ok /\ HasSheet(file.wb, name) /\ Len(file.wb.Sheets[name]) > 0
    THEN Len(file.wb.Sheets[name]) - 1 ELSE 0

RECURSIVE TotalRows(_, _)
TotalRows(fileList, name) ==
    IF fileList = <<>> THEN 0
    ELSE DataRows(Head(fileList), name) + TotalRows(Tail(fileList), name)

\* The files that may come next in a group whose varied sheet is name.
VariedFiles(name, fileList) ==
    { VariedFile(name, Len(fileList) + 1, sheet) :
        sheet \in UNION { SheetChoices(name, Len(fileList) + 1, t) :
                            t \in 0..(MaxRows - TotalRows(fileList, name)) } }

TempreFiles(fid) ==
    { [id |-> fid, wb |-> Corrupt] } \cup
    { [id |-> fid, wb |-> MakeWb(<<FixedSheet(KOSEI, fid)>>, <<FixedSheet(NAIYO, fid)>>, t)] :
          t \in { <<>>, <<TempreOf(fid)>> } }

-----------------------------------------------------------------------------
(* Specification of mergeExcelFiles alone: a caller assembles a file list  *)
(* of one family, then calls mergeExcelFiles on it.                        *)

\* No call of getGroupKey under way.
KeyIdle ==
    /\ filename = <<>>
    /\ groupKey = <<>>

\* No call of naturalSort under way.
SortIdle ==
    /\ skeys = <<>>
    /\ compared = <<>>
    /\ sorted = <<>>

\* No call of mergeExcelFiles under way.
MergeIdle ==
    /\ mfiles = <<>>
    /\ mpc = "idle"
    /\ mj = 1
    /\ koseiGroups = <<>>
    /\ naiyoGroups = <<>>
    /\ koseiHeaders = <<>>
    /\ naiyoHeaders = <<>>
    /\ masterTempre = <<>>
    /\ mresult = <<>>

\* useState initial values of the component.
InitialStatus == [isProcessing |-> FALSE, progress |-> 0, error |-> <<>>, results |-> <<>>]

AppMounted ==
    /\ files = <<>>
    /\ status = InitialStatus
    /\ hpc = "idle"
    /\ closure = [files |-> <<>>, groupedFiles |-> <<>>]
    /\ groupKeys = <<>>
    /\ gi = 0
    /\ results = <<>>
    /\ objectUrls = <<>>
    /\ nextId = 1

InitMerge ==
    /\ mode \in {KOSEI, NAIYO, TEMPRE}
    /\ KeyIdle
    /\ SortIdle
    /\ MergeIdle
    /\ AppMounted

\* The caller adds one more file to the list it is going to pass.
SupplyFile ==
    /\ mpc = "idle"
    /\ Len(mfiles) < MaxFiles
    /\ \E f \in IF mode = TEMPRE THEN TempreFiles(Len(mfiles) + 1)
                ELSE VariedFiles(mode, mfiles) :
          mfiles' = Append(mfiles, f)
    /\ UNCHANGED <<mode, mpc, mj, koseiGroups, naiyoGroups, koseiHeaders, naiyoHeaders,
                   masterTempre, mresult, keyVars, sortVars, appVars>>

\* mergeExcelFiles(mfiles)
CallMerge ==
    /\ mpc = "idle"
    /\ MergeCalled(mfiles)
    /\ UNCHANGED <<mode, keyVars, sortVars, appVars>>

NextMerge == SupplyFile \/ CallMerge \/ MergeReadFile \/ MergeDecodeFails

SpecMerge == InitMerge /\ [][NextMerge]_vars

-----------------------------------------------------------------------------
(* Properties of mergeExcelFiles (SpecMerge).                              *)

Governed == {KOSEI, NAIYO}

Resolved == mpc = "resolved"

DesignatedColumn(name) == IF name = KOSEI THEN KoseiColumn ELSE NaiyoColumn

\* The governed sheet of the workbook handed to XLSX.write.
OutSheet(name) == IF name = KOSEI THEN mresult[1].kosei ELSE mresult[1].naiyo

OutRows(name) == OutSheet(name).rows

\* The blocks as the collector stored them.
GroupsOf(name) == IF name = KOSEI THEN koseiGroups ELSE naiyoGroups

\* The identifier of the block that holds the row of origin src.
BlockOf(name, src) ==
    LET g == GroupsOf(name)
    IN g[CHOOSE i \in 1..Len(g) : \E k \in 1..Len(g[i].rows) : g[i].rows[k].src = src].key

\* Files of the group that supply row 0 of the sheet.
Suppliers(name) ==
    { f \in 1..Len(mfiles) : mfiles[f].wb.ok /\ HasSheet(mfiles[f].wb, name)
                                /\ Len(mfiles[f].wb.Sheets[name]) > 0 }

\* Positions of the output rows that came from the row of origin src.
Occurrences(name, src) == { i \in 1..Len(OutRows(name)) : OutRows(name)[i].src = src }

\* C3: the data rows of a governed output sheet are the collected blocks in
\* ascending naturalSort order of their identifiers: no row's block
\* identifier compares greater than that of a later row, the rows of one
\* identifier are contiguous, and every collected block is in the output.
C3_BlocksInNaturalOrder ==
    Resolved =>
        \A name \in Governed :
            LET rows == OutRows(name)
                id(i) == BlockOf(name, rows[i].src)
            IN /\ \A i, j \in 1..Len(rows) :
                    i < j => naturalSort(id(i), id(j)) <= 0
               /\ \A i, j, k \in 1..Len(rows) :
                    (i < j /\ j < k /\ id(i) = id(k)) => id(j) = id(i)
               /\ \A b \in 1..Len(GroupsOf(name)) :
                    \A n \in 1..Len(GroupsOf(name)[b].rows) :
                        Occurrences(name, GroupsOf(name)[b].rows[n].src) # {}

\* A merge whose blocks were collected in an order that is not the natural
\* order, with three rows or more in the output.
C3_Witness ==
    /\ Resolved
    /\ \E name \in Governed :
          /\ Len(OutRows(name)) >= 3
          /\ Len(GroupsOf(name)) >= 2
          /\ naturalSort(GroupsOf(name)[1].key, GroupsOf(name)[2].key) > 0

\* C4: within one output block rows keep file order and, within a file,
\* the file's row order.
C4_RowsInFileThenRowOrder ==
    Resolved =>
        \A name \in Governed :
            LET rows == OutRows(name)
            IN \A i, j \in 1..Len(rows) :
                  ( /\ BlockOf(name, rows[i].src) = BlockOf(name, rows[j].src)
                    /\ \/ rows[i].src[1] < rows[j].src[1]
                       \/ /\ rows[i].src[1] = rows[j].src[1]
                          /\ rows[i].src[2] < rows[j].src[2] )
                  => i < j

\* One block fed by two files, the first file giving it two rows.
C4_Witness ==
    /\ Resolved
    /\ \E name \in Governed :
          \E i, j, k \in 1..Len(OutRows(name)) :
              LET rows == OutRows(name)
              IN /\ BlockOf(name, rows[i].src) = BlockOf(name, rows[k].src)
                 /\ BlockOf(name, rows[j].src) = BlockOf(name, rows[k].src)
                 /\ rows[i].src[1] = rows[j].src[1]
                 /\ rows[i].src[2] < rows[j].src[2]
                 /\ rows[j].src[1] < rows[k].src[1]

\* The designated cell of a decoded row ("" when the row has no such column).
DesignatedCell(row, name) ==
    IF DesignatedColumn(name) + 1 <= Len(row) THEN row[DesignatedColumn(name) + 1]
    ELSE EmptyCell

\* C5 (as stated): every data row that is not entirely empty belongs to the
\* block named by the nearest row at or before it, in its file, whose
\* designated cell is non-empty, and occurs there once; with no such row it
\* is absent from the output.
C5_ForwardFill ==
    Resolved =>
        \A name \in Governed : \A f \in Suppliers(name) :
            LET data == mfiles[f].wb.Sheets[name]
            IN \A r \in 1..(Len(data) - 1) :
                  RowHasContent(data[r + 1]) =>
                      LET named == { p \in 1..r :
                                       DesignatedCell(data[p + 1], name) # EmptyCell }
                      IN IF named = {}
                         THEN Occurrences(name, <<f, r>>) = {}
                         ELSE /\ Cardinality(Occurrences(name, <<f, r>>)) = 1
                              /\ BlockOf(name, <<f, r>>) =
                                   Trim(StringOf(DesignatedCell(data[Max(named) + 1], name)))

\* C6: the header of a governed output sheet is row 0 of the first file
\* that supplies the sheet, and no file's row 0 is among the data rows.
C6_HeaderOfFirstSupplier ==
    Resolved =>
        \A name \in Governed :
            /\ Suppliers(name) # {} =>
                  OutSheet(name).header = mfiles[Min(Suppliers(name))].wb.Sheets[name][1]
            /\ \A i \in 1..Len(OutRows(name)) : OutRows(name)[i].src[2] # 0

\* Two files supply the sheet and the later one contributes data rows, so
\* its header had to be ignored.
C6_Witness ==
    /\ Resolved
    /\ \E name \in Governed :
          /\ Cardinality(Suppliers(name)) >= 2
          /\ \E i \in 1..Len(OutRows(name)) : OutRows(name)[i].src[1] = Max(Suppliers(name))

TempreHolders == { f \in 1..Len(mfiles) : mfiles[f].wb.ok /\ HasSheet(mfiles[f].wb, TEMPRE) }

\* C7: the output's pass-through sheet is that of the first file that has
\* one; without any, the output has none; a missing pass-through sheet is
\* no reason for the merge to fail.
C7_TempreOfFirstHolder ==
    /\ Resolved =>
          mresult[1].tempre =
              IF TempreHolders = {} THEN <<>>
              ELSE <<mfiles[Min(TempreHolders)].wb.Sheets[TEMPRE]>>
    /\ mpc = "rejected" => \E f \in 1..Len(mfiles) : ~mfiles[f].wb.ok

\* Two files have a pass-through sheet, so the later one had to be ignored.
C7_Witness ==
    /\ Resolved
    /\ Cardinality(TempreHolders) >= 2

\* The loop of mergeExcelFiles over a file list, for one governed sheet.
RECURSIVE HeadersOver(_, _)
HeadersOver(fileList, name) ==
    IF fileList = <<>> THEN <<>>
    ELSE HeadersAfter(HeadersOver(SubSeq(fileList, 1, Len(fileList) - 1), name),
                      fileList[Len(fileList)].wb, name)

RECURSIVE GroupsOver(_, _)
GroupsOver(fileList, name) ==
    IF fileList = <<>> THEN <<>>
    ELSE GroupsAfter(GroupsOver(SubSeq(fileList, 1, Len(fileList) - 1), name),
                     fileList[Len(fileList)], name, DesignatedColumn(name))

Without(fileList, f) == SubSeq(fileList, 1, f - 1) \o SubSeq(fileList, f + 1, Len(fileList))

\* C8: a file without a governed sheet adds nothing to that output sheet,
\* which equals the one the other files alone produce, and is no reason
\* for the merge to fail.
C8_MissingSheetContributesNothing ==
    /\ Resolved =>
          \A name \in Governed : \A f \in 1..Len(mfiles) :
              ~HasSheet(mfiles[f].wb, name) =>
                  /\ OutSheet(name) =
                        FinalData(HeadersOver(Without(mfiles, f), name),
                                  GroupsOver(Without(mfiles, f), name))
                  /\ \A i \in 1..Len(OutRows(name)) : OutRows(name)[i].src[1] # f
    /\ mpc = "rejected" => ~mfiles[mj].wb.ok

\* A file without the sheet, between or before files that fill it.
C8_Witness ==
    /\ Resolved
    /\ \E name \in Governed : \E f \in 1..Len(mfiles) :
          /\ ~HasSheet(mfiles[f].wb, name)
          /\ f < Len(mfiles)
          /\ Len(OutRows(name)) >= 2

\* mergeExcelFiles on the one file whose workbook is wb, as read back from
\* the bytes it returns.
MergedAlone(wb) ==
    LET one == << [id |-> 1, wb |-> wb] >>
    IN ReadWritten(NewWb(HeadersOver(one, KOSEI), GroupsOver(one, KOSEI),
                         HeadersOver(one, NAIYO), GroupsOver(one, NAIYO),
                         TempreAfter(<<>>, wb)))

\* C12: merging the output of a single-file merge again gives governed
\* sheets with the same header and the same sequence of data rows.
C12_SingleFileMergeIdempotent ==
    (Resolved /\ Len(mfiles) = 1) =>
        LET once == ReadWritten(mresult[1])
        IN \A name \in Governed :
              MergedAlone(once).Sheets[name] = once.Sheets[name]

\* A single file whose blocks the first merge had to reorder, with a row
\* that got its identifier by forward fill.
C12_Witness ==
    /\ Resolved
    /\ Len(mfiles) = 1
    /\ \E name \in Governed :
          /\ Len(OutRows(name)) >= 3
          /\ Len(GroupsOf(name)) >= 2
          /\ naturalSort(GroupsOf(name)[1].key, GroupsOf(name)[2].key) > 0
          /\ \E i \in 1..Len(OutRows(name)) :
                DesignatedCell(OutRows(name)[i].cells, name) = EmptyCell

Undecodable == { f \in 1..Len(mfiles) : ~mfiles[f].wb.ok }

\* C14: a group with a file that cannot be decoded never yields an output
\* workbook: the merge is rejected at the first such file, the files after
\* it are not read, and what the decodable files gave is not returned.
C14_UndecodableFileFailsMerge ==
    /\ Undecodable # {} => (mpc # "resolved" /\ mresult = <<>>)
    /\ (mpc = "reading" /\ Undecodable # {}) => mj <= Min(Undecodable)
    /\ mpc = "rejected" => (mj = Min(Undecodable) /\ mresult = <<>>)
    /\ (Resolved /\ mfiles # <<>>) => (mj = Len(mfiles) /\ Undecodable = {})

\* A merge rejected at its second file, after the first one was collected.
C14_Witness ==
    /\ mpc = "rejected"
    /\ mj = 2
    /\ mfiles[1].wb.ok
    /\ koseiGroups # <<>>

\* C11 (as stated): a call of mergeExcelFiles with no files ends in a
\* failure at once and hands no output workbook to the caller.
C11_EmptyInputFails ==
    (mpc # "idle" /\ mfiles = <<>>) => (mpc = "rejected" /\ mresult = <<>>)

\* C16 (as stated): a data row that is not entirely empty and whose
\* designated cell is not "" is in the output once, in the block named by
\* that cell's value converted to a string and trimmed.
C16_DesignatedValueNamesBlock ==
    Resolved =>
        \A name \in Governed : \A f \in Suppliers(name) :
            LET data == mfiles[f].wb.Sheets[name]
            IN \A r \in 1..(Len(data) - 1) :
                  ( /\ RowHasContent(data[r + 1])
                    /\ DesignatedCell(data[r + 1], name) # EmptyCell )
                  => /\ Cardinality(Occurrences(name, <<f, r>>)) = 1
                     /\ BlockOf(name, <<f, r>>) =
                           Trim(StringOf(DesignatedCell(data[r + 1], name)))

AllCellsEmpty(row) == \A c \in 1..Len(row) : row[c] = EmptyCell

\* The file list with the entirely empty data rows of the sheet taken out.
WithoutBlankRows(fileList, name) ==
    [f \in 1..Len(fileList) |->
        IF fileList[f].wb.ok /\ HasSheet(fileList[f].wb, name)
              /\ Len(fileList[f].wb.Sheets[name]) > 0
        THEN [fileList[f] EXCEPT !.wb.Sheets[name] =
                 <<Head(@)>> \o SelectSeq(Tail(@), LAMBDA row : ~AllCellsEmpty(row))]
        ELSE fileList[f]]

\* The blocks without the origin of their rows.
CellsOfBlocks(groups) ==
    [b \in 1..Len(groups) |->
        [key |-> groups[b].key,
         cells |-> [n \in 1..Len(groups[b].rows) |-> groups[b].rows[n].cells]]]

\* C17: an entirely empty data row is in no block, and the blocks are those
\* the collector makes of the same files with these rows taken out: the
\* same identifiers in the same order, each with the same rows.
C17_BlankRowsSkipped ==
    Resolved =>
        \A name \in Governed :
            /\ \A i \in 1..Len(OutRows(name)) : ~AllCellsEmpty(OutRows(name)[i].cells)
            /\ CellsOfBlocks(GroupsOf(name)) =
                  CellsOfBlocks(GroupsOver(WithoutBlankRows(mfiles, name), name))

\* An entirely empty row between a row with an identifier and a row that
\* joined a block by forward fill.
C17_Witness ==
    /\ Resolved
    /\ \E name \in Governed : \E f \in Suppliers(name) :
          LET data == mfiles[f].wb.Sheets[name]
          IN \E r, t \in 1..(Len(data) - 1) :
                /\ r < t
                /\ AllCellsEmpty(data[r + 1])
                /\ ~AllCellsEmpty(data[t + 1])
                /\ DesignatedCell(data[t + 1], name) = EmptyCell
                /\ Occurrences(name, <<f, t>>) # {}

\* C18: the running identifier starts empty in every file and every
\* governed sheet: a data row with no non-empty designated cell at or before
\* it in its own sheet is not in the output, whatever the files before and
\* the other sheet held, and the block of an output row is named by a
\* designated cell at or before it in its own sheet.
C18_IdentifierPerFileAndSheet ==
    Resolved =>
        \A name \in Governed : \A f \in Suppliers(name) :
            LET data == mfiles[f].wb.Sheets[name]
            IN \A r \in 1..(Len(data) - 1) :
                  /\ (\A p \in 1..r : DesignatedCell(data[p + 1], name) = EmptyCell)
                        => Occurrences(name, <<f, r>>) = {}
                  /\ Occurrences(name, <<f, r>>) # {} =>
                        BlockOf(name, <<f, r>>) \in
                            { Trim(StringOf(DesignatedCell(data[p + 1], name))) : p \in 1..r }

\* The second file starts with a row that has content but no identifier,
\* after a first file whose last row is in the output.
C18_Witness ==
    /\ Resolved
    /\ \E name \in Governed :
          /\ {1, 2} \subseteq Suppliers(name)
          /\ Len(mfiles[2].wb.Sheets[name]) >= 2
          /\ ~AllCellsEmpty(mfiles[2].wb.Sheets[name][2])
          /\ DesignatedCell(mfiles[2].wb.Sheets[name][2], name) = EmptyCell
          /\ Occurrences(name, <<1, Len(mfiles[1].wb.Sheets[name]) - 1>>) # {}
          /\ Occurrences(name, <<2, 1>>) = {}

\* C19 (as stated): every output row is a data row of an input file with
\* its cells unchanged and occurs once, and an input data row is missing
\* from the output only if it is entirely empty or if no designated cell at
\* or before it in its sheet is non-empty.
C19_RowConservation ==
    Resolved =>
        \A name \in Governed :
            /\ \A i \in 1..Len(OutRows(name)) :
                  LET src == OutRows(name)[i].src
                  IN /\ src[1] \in Suppliers(name)
                     /\ src[2] \in 1..(Len(mfiles[src[1]].wb.Sheets[name]) - 1)
                     /\ OutRows(name)[i].cells = mfiles[src[1]].wb.Sheets[name][src[2] + 1]
                     /\ Occurrences(name, src) = {i}
            /\ \A f \in Suppliers(name) :
                  LET data == mfiles[f].wb.Sheets[name]
                  IN \A r \in 1..(Len(data) - 1) :
                        Occurrences(name, <<f, r>>) = {} =>
                            \/ AllCellsEmpty(data[r + 1])
                            \/ \A p \in 1..r :
                                  DesignatedCell(data[p + 1], name) = EmptyCell

-----------------------------------------------------------------------------
(* Specification of getGroupKey alone, over all short file names.          *)

NameChars == {"a", "1", "_", "-", ".", "/", "\n"}

FileNamesUpTo(n) == UNION { [1..k -> NameChars] : k \in 0..n }

InitKey ==
    /\ mode = "key"
    /\ filename \in FileNamesUpTo(MaxNameLen)
    /\ groupKey = <<>>
    /\ SortIdle
    /\ MergeIdle
    /\ AppMounted

CallGetGroupKey ==
    /\ mode = "key"
    /\ groupKey = <<>>
    /\ groupKey' = <<getGroupKey(filename)>>
    /\ UNCHANGED <<mode, filename, sortVars, mergeVars, appVars>>

NextKey == CallGetGroupKey

SpecKey == InitKey /\ [][NextKey]_vars

\* The digits at the end of s.
RECURSIVE TrailingDigits(_)
TrailingDigits(s) ==
    IF s # <<>> /\ IsDigit(s[Len(s)]) THEN 1 + TrailingDigits(SubSeq(s, 1, Len(s) - 1))
    ELSE 0

\* <prefix>(_ or -)<one or more digits>, anchored at the end.
HasNumericSuffix(s) ==
    /\ TrailingDigits(s) >= 1
    /\ Len(s) > TrailingDigits(s)
    /\ s[Len(s) - TrailingDigits(s)] \in {"_", "-"}

PrefixOf(s) == SubSeq(s, 1, Len(s) - TrailingDigits(s) - 1)

Dots(s) == { i \in 1..Len(s) : s[i] = "." }

\* The name up to its final ".".
BeforeFinalDot(s) == IF Dots(s) = {} THEN s ELSE SubSeq(s, 1, Max(Dots(s)) - 1)

\* C9 (as stated): the key is the name up to the final ".", less one
\* trailing (_ or -)<digits> suffix when it has one.
C9_KeyAsStated ==
    groupKey # <<>> =>
        groupKey[1] = IF HasNumericSuffix(BeforeFinalDot(filename))
                      THEN PrefixOf(BeforeFinalDot(filename))
                      ELSE BeforeFinalDot(filename)

\* The extension is removed only when there is text after the final "."
\* and no "/" in it.
ExtensionStripped(s) ==
    IF \/ Dots(s) = {}
       \/ Max(Dots(s)) = Len(s)
       \/ \E j \in (Max(Dots(s)) + 1)..Len(s) : s[j] = "/"
    THEN s
    ELSE SubSeq(s, 1, Max(Dots(s)) - 1)

HasLineTerminator(s) == \E i \in 1..Len(s) : IsLineTerminator(s[i])

\* C9 (amended): the final "." and the text after it are removed only when
\* that text is not empty and has no "/"; one trailing (_ or -)<digits> suffix is then
\* removed when the text before it has no line break; otherwise the
\* extension-stripped name is the key.
C9_GroupKey ==
    groupKey # <<>> =>
        LET stripped == ExtensionStripped(filename)
        IN groupKey[1] = IF HasNumericSuffix(stripped) /\ ~HasLineTerminator(PrefixOf(stripped))
                         THEN PrefixOf(stripped)
                         ELSE stripped

\* A name with an extension and two numeric suffixes: only the last one goes.
C9_Witness ==
    /\ groupKey # <<>>
    /\ filename = <<"_", "1", "-", "1", ".", "a">>
    /\ groupKey[1] = <<"_", "1">>

-----------------------------------------------------------------------------
(* Specification of naturalSort alone: all pairs of short identifiers, and *)
(* short arrays over a sample of identifiers, compared and sorted.         *)

IdChars == {"0", "1", "2", "Q", "a", "A"}

RECURSIVE IdentifiersUpTo(_)
IdentifiersUpTo(n) ==
    IF n = 0 THEN { <<>> }
    ELSE IdentifiersUpTo(n - 1) \cup
         { Append(s, c) : s \in { t \in IdentifiersUpTo(n - 1) : Len(t) = n - 1 },
                          c \in IdChars }

SampleIdentifiers ==
    { <<"1">>, <<"2">>, <<"1", "0">>, <<"0", "2">>, <<"Q", "2">>, <<"Q", "1", "0">>,
      <<"a">>, <<"A">> }

InitSort ==
    /\ mode = "sort"
    /\ skeys \in [1..2 -> IdentifiersUpTo(MaxIdLen)] \cup
                 UNION { [1..n -> SampleIdentifiers] : n \in 3..MaxSortLen }
    /\ compared = <<>>
    /\ sorted = <<>>
    /\ KeyIdle
    /\ MergeIdle
    /\ AppMounted

\* naturalSort(a, b) on the first two identifiers.
CallNaturalSort ==
    /\ mode = "sort"
    /\ compared = <<>>
    /\ compared' = <<naturalSort(skeys[1], skeys[2])>>
    /\ UNCHANGED <<mode, skeys, sorted, keyVars, mergeVars, appVars>>

\* skeys.sort(naturalSort)
CallSort ==
    /\ mode = "sort"
    /\ sorted = <<>>
    /\ sorted' = <<SortKeys(skeys)>>
    /\ UNCHANGED <<mode, skeys, compared, keyVars, mergeVars, appVars>>

NextSort == CallNaturalSort \/ CallSort

SpecSort == InitSort /\ [][NextSort]_vars

Sign(n) == IF n < 0 THEN -1 ELSE IF n > 0 THEN 1 ELSE 0

\* The string with its letters in one case.
FoldCase(s) == [i \in 1..Len(s) |-> IF s[i] = "A" THEN "a" ELSE IF s[i] = "Q" THEN "q" ELSE s[i]]

\* The digit run at the end of s, and what precedes it.
FinalRun(s) == SubSeq(s, Len(s) - TrailingDigits(s) + 1, Len(s))

BeforeFinalRun(s) == SubSeq(s, 1, Len(s) - TrailingDigits(s))

\* C13: naturalSort orders two identifiers that differ only in a final run
\* of digits by the numeric value of that run (so "2" before "10", "Q2"
\* before "Q10", and "02" and "2" equal) and takes identifiers that differ
\* only in the case of letters as equal ("a" and "A"); sort(naturalSort)
\* rearranges the array, ["10","2","1"] into ["1","2","10"], identifiers
\* made of digits ending up in ascending numeric value.
C13_NaturalComparator ==
    /\ compared # <<>> =>
          LET a == skeys[1]
              b == skeys[2]
          IN /\ ( /\ TrailingDigits(a) >= 1
                  /\ TrailingDigits(b) >= 1
                  /\ FoldCase(BeforeFinalRun(a)) = FoldCase(BeforeFinalRun(b)) )
                => compared[1] = Sign(NumVal(FinalRun(a)) - NumVal(FinalRun(b)))
             /\ FoldCase(a) = FoldCase(b) => compared[1] = 0
             /\ (a = <<"Q", "2">> /\ b = <<"1", "0">>) => compared[1] = 1
    /\ sorted # <<>> =>
          LET out == sorted[1]
          IN /\ Len(out) = Len(skeys)
             /\ \A k \in { skeys[i] : i \in 1..Len(skeys) } :
                   Cardinality({ i \in 1..Len(out) : out[i] = k }) =
                   Cardinality({ i \in 1..Len(skeys) : skeys[i] = k })
             /\ \A i, j \in 1..Len(out) :
                   ( /\ i < j
                     /\ TrailingDigits(out[i]) >= 1
                     /\ TrailingDigits(out[j]) >= 1
                     /\ FoldCase(BeforeFinalRun(out[i])) = FoldCase(BeforeFinalRun(out[j])) )
                   => NumVal(FinalRun(out[i])) <= NumVal(FinalRun(out[j]))
             /\ skeys = << <<"1", "0">>, <<"2">>, <<"1">> >> =>
                   out = << <<"1">>, <<"2">>, <<"1", "0">> >>
             /\ skeys = << <<"Q", "1", "0">>, <<"a">>, <<"Q", "2">> >> =>
                   out = << <<"a">>, <<"Q", "2">>, <<"Q", "1", "0">> >>

\* The array ["10","2","1"], sorted.
C13_Witness ==
    /\ sorted # <<>>
    /\ skeys = << <<"1", "0">>, <<"2">>, <<"1">> >>
    /\ sorted[1] = << <<"1">>, <<"2">>, <<"1", "0">> >>

-----------------------------------------------------------------------------
(* App.tsx: the component state, groupedFiles and the handlers.  A handler *)
(* is enabled when the element that triggers it is rendered.               *)

AppFileNames ==
    { <<"a", "_", "1", ".", "x">>, <<"a", "_", "2", ".", "x">>,
      <<"b", ".", "x">>, <<"2", "_", "1", ".", "x">>,
      <<"v", "a", "l", "u", "e", "O", "f", ".", "x">> }

AppWorkbooks(id) ==
    { Corrupt, MakeWb(<<FixedSheet(KOSEI, id)>>, <<FixedSheet(NAIYO, id)>>, <<>>) }

\* The ExcelFile built by onFileChange for one selected file.
NewExcelFile(id, name, wb) ==
    [id |-> id, name |-> name, groupKey |-> getGroupKey(name), file |-> [id |-> id, wb |-> wb]]

\* Mutant of ObjectPush: groups[key] = [file] instead of groups[key].push(file).
ObjectPushOverwrite(groups, key, file) ==
    IF \E i \in 1..Len(groups) : groups[i].key = key
    THEN [i \in 1..Len(groups) |->
            IF groups[i].key = key
            THEN [key |-> key, files |-> <<file>>]
            ELSE groups[i]]
    ELSE Append(groups, [key |-> key, files |-> <<file>>])

\* groups[key].push(file), creating the property on first use.  The object
\* is the sequence of its properties in creation order.
ObjectPush(groups, key, file) ==
    IF \E i \in 1..Len(groups) : groups[i].key = key
    THEN [i \in 1..Len(groups) |->
            IF groups[i].key = key
            THEN [key |-> key, files |-> Append(groups[i].files, file)]
            ELSE groups[i]]
    ELSE Append(groups, [key |-> key, files |-> <<file>>])

\* const groupedFiles = useMemo(...)
RECURSIVE groupedFiles(_)
groupedFiles(fileList) ==
    IF fileList = <<>> THEN <<>>
    ELSE ObjectPush(groupedFiles(SubSeq(fileList, 1, Len(fileList) - 1)),
                    fileList[Len(fileList)].groupKey, fileList[Len(fileList)])

\* The property names every object literal inherits from Object.prototype.
ObjectPrototypeKeys ==
    { <<"c", "o", "n", "s", "t", "r", "u", "c", "t", "o", "r">>,
      <<"h", "a", "s", "O", "w", "n", "P", "r", "o", "p", "e", "r", "t", "y">>,
      <<"i", "s", "P", "r", "o", "t", "o", "t", "y", "p", "e", "O", "f">>,
      <<"p", "r", "o", "p", "e", "r", "t", "y", "I", "s", "E", "n", "u", "m", "e", "r", "a", "b", "l", "e">>,
      <<"t", "o", "L", "o", "c", "a", "l", "e", "S", "t", "r", "i", "n", "g">>,
      <<"t", "o", "S", "t", "r", "i", "n", "g">>,
      <<"v", "a", "l", "u", "e", "O", "f">>,
      <<"_", "_", "p", "r", "o", "t", "o", "_", "_">>,
      <<"_", "_", "d", "e", "f", "i", "n", "e", "G", "e", "t", "t", "e", "r", "_", "_">>,
      <<"_", "_", "d", "e", "f", "i", "n", "e", "S", "e", "t", "t", "e", "r", "_", "_">>,
      <<"_", "_", "l", "o", "o", "k", "u", "p", "G", "e", "t", "t", "e", "r", "_", "_">>,
      <<"_", "_", "l", "o", "o", "k", "u", "p", "S", "e", "t", "t", "e", "r", "_", "_">> }

\* The callback of useMemo throws a TypeError: for a key that names an
\* inherited property, groups[key] is truthy without being an array, so no
\* own property is made and groups[key].push is not a function.
groupedFilesThrows(fileList) ==
    \E i \in 1..Len(fileList) : fileList[i].groupKey \in ObjectPrototypeKeys

\* groupedFiles[key]
ObjectGet(groups, key) == groups[CHOOSE i \in 1..Len(groups) : groups[i].key = key].files

\* 2^32 - 1 in decimal; array indices are the integers below it.
ArrayIndexLimit == <<"4", "2", "9", "4", "9", "6", "7", "2", "9", "5">>

\* Order of two digit strings of the same length.
RECURSIVE DigitsLess(_, _)
DigitsLess(x, y) ==
    IF x = <<>> THEN FALSE
    ELSE IF DigitVal(Head(x)) # DigitVal(Head(y)) THEN DigitVal(Head(x)) < DigitVal(Head(y))
    ELSE DigitsLess(Tail(x), Tail(y))

\* A property key that is an array index: a canonical numeric string below 2^32 - 1.
IsArrayIndex(key) ==
    /\ key # <<>>
    /\ \A i \in 1..Len(key) : IsDigit(key[i])
    /\ Len(key) = 1 \/ key[1] # "0"
    /\ \/ Len(key) < Len(ArrayIndexLimit)
       \/ Len(key) = Len(ArrayIndexLimit) /\ DigitsLess(key, ArrayIndexLimit)

RECURSIVE AscendingIndices(_)
AscendingIndices(keys) ==
    IF keys = {} THEN <<>>
    ELSE LET least == CHOOSE k \in keys : \A o \in keys : NumVal(k) <= NumVal(o)
         IN <<least>> \o AscendingIndices(keys \ {least})

IsNotArrayIndex(key) == ~IsArrayIndex(key)

\* Object.keys: array-index keys in ascending numeric order, then the other
\* keys in creation order.
ObjectKeys(groups) ==
    LET keys == [i \in 1..Len(groups) |-> groups[i].key]
    IN AscendingIndices({ keys[i] : i \in { j \in 1..Len(keys) : IsArrayIndex(keys[j]) } })
           \o SelectSeq(keys, IsNotArrayIndex)

\* Math.round((k / n) * 100)
RoundPercent(k, n) == (200 * k + n) \div (2 * n)

ErrorMessage == "An error occurred while processing. Check the file format and the sheet names."

\* The locals of mergeExcelFiles are gone once the caller has its outcome.
MergeReturned ==
    /\ mfiles' = <<>>
    /\ mpc' = "idle"
    /\ mj' = 1
    /\ koseiGroups' = <<>>
    /\ naiyoGroups' = <<>>
    /\ koseiHeaders' = <<>>
    /\ naiyoHeaders' = <<>>
    /\ masterTempre' = <<>>
    /\ mresult' = <<>>

\* The component is mounted until a render throws: with no error boundary
\* in App.tsx an error in useMemo takes the whole component off the page,
\* and state updates of an unmounted component are ignored.
Mounted ==
    /\ mode = "app"
    /\ ~groupedFilesThrows(files)

\* The file input is rendered while there are no results.
OnFileChange ==
    /\ Mounted
    /\ status.results = <<>>
    /\ \E n \in 1..2 :
          /\ nextId + n - 1 <= MaxUploads
          /\ \E names \in [1..n -> AppFileNames] :
             \E wbs \in [1..n -> {"ok", "corrupt"}] :
                files' = files \o
                    [k \in 1..n |->
                        NewExcelFile(nextId + k - 1, names[k],
                            IF wbs[k] = "ok"
                            THEN MakeWb(<<FixedSheet(KOSEI, nextId + k - 1)>>,
                                        <<FixedSheet(NAIYO, nextId + k - 1)>>, <<>>)
                            ELSE Corrupt)]
          /\ nextId' = nextId + n
    /\ UNCHANGED <<mode, keyVars, sortVars, mergeVars, status, hpc, closure, groupKeys, gi, results,
                   objectUrls>>

\* The file list with its buttons is rendered when there are files, no
\* batch is running and there are no results.
FileListShown ==
    /\ Mounted
    /\ files # <<>>
    /\ ~status.isProcessing
    /\ status.results = <<>>

RECURSIVE WithoutId(_, _)
WithoutId(fileList, id) ==
    IF fileList = <<>> THEN <<>>
    ELSE IF Head(fileList).id # id THEN <<Head(fileList)>> \o WithoutId(Tail(fileList), id)
    ELSE WithoutId(Tail(fileList), id)

RECURSIVE WithoutKey(_, _)
WithoutKey(fileList, key) ==
    IF fileList = <<>> THEN <<>>
    ELSE IF Head(fileList).groupKey # key
         THEN <<Head(fileList)>> \o WithoutKey(Tail(fileList), key)
         ELSE WithoutKey(Tail(fileList), key)

RemoveFile ==
    /\ FileListShown
    /\ \E i \in 1..Len(files) : files' = WithoutId(files, files[i].id)
    /\ UNCHANGED <<mode, keyVars, sortVars, mergeVars, status, hpc, closure, groupKeys, gi, results,
                   objectUrls, nextId>>

RemoveGroup ==
    /\ FileListShown
    /\ \E i \in 1..Len(files) : files' = WithoutKey(files, files[i].groupKey)
    /\ UNCHANGED <<mode, keyVars, sortVars, mergeVars, status, hpc, closure, groupKeys, gi, results,
                   objectUrls, nextId>>

\* The "clear all" button: setFiles([])
ClearAll ==
    /\ FileListShown
    /\ files' = <<>>
    /\ UNCHANGED <<mode, keyVars, sortVars, mergeVars, status, hpc, closure, groupKeys, gi, results,
                   objectUrls, nextId>>

\* Mutant of GroupFiles: the files are looked up in the current file list,
\* not in the groupedFiles the handler was created with.
GroupFilesOfCurrentList(groups, key) ==
    LET HasKey(f) == f.groupKey = key
        members == SelectSeq(files, HasKey)
    IN [k \in 1..Len(members) |-> members[k].file]

\* groupedFiles[key].map(f => f.file)
GroupFiles(groups, key) ==
    [k \in 1..Len(ObjectGet(groups, key)) |-> ObjectGet(groups, key)[k].file]

\* handleMergeAll, from the click to the first await.  Its button is
\* rendered under the condition of the file list, so files is not empty.
HandleMergeAll ==
    /\ FileListShown
    /\ hpc # "awaiting"
    /\ Len(objectUrls) < MaxUrls
    /\ status' = [isProcessing |-> TRUE, progress |-> 0, error |-> <<>>, results |-> <<>>]
    /\ closure' = [files |-> files, groupedFiles |-> groupedFiles(files)]
    /\ groupKeys' = ObjectKeys(groupedFiles(files))
    /\ results' = <<>>
    /\ gi' = 1
    /\ hpc' = "awaiting"
    /\ MergeCalled(GroupFiles(groupedFiles(files), ObjectKeys(groupedFiles(files))[1]))
    /\ UNCHANGED <<mode, keyVars, sortVars, files, objectUrls, nextId>>

\* "await mergeExcelFiles(groupFiles)" yields the blob: the rest of the
\* iteration, then the next call or the end of the loop.
GroupMerged ==
    /\ hpc = "awaiting"
    /\ mpc = "resolved"
    /\ LET url == Len(objectUrls) + 1
           pushed == Append(results, [groupName |-> groupKeys[gi], url |-> url,
                                      fileCount |-> Len(mfiles)])
           progressed == [status EXCEPT !.progress = RoundPercent(gi, Len(groupKeys))]
       IN /\ objectUrls' = Append(objectUrls, [blob |-> mresult[1], revoked |-> FALSE])
          /\ results' = pushed
          /\ IF gi < Len(groupKeys)
             THEN /\ gi' = gi + 1
                  /\ status' = IF Mounted THEN progressed ELSE status
                  /\ MergeCalled(GroupFiles(closure.groupedFiles, groupKeys[gi + 1]))
                  /\ UNCHANGED hpc
             ELSE /\ status' = IF Mounted
                               THEN [progressed EXCEPT !.isProcessing = FALSE,
                                                       !.results = pushed]
                               ELSE status
                  /\ hpc' = "done"
                  /\ MergeReturned
                  /\ UNCHANGED gi
    /\ UNCHANGED <<mode, keyVars, sortVars, files, closure, groupKeys, nextId>>

\* Mutant of CaughtStatus: the results collected so far are kept.
CaughtStatusKeepingResults ==
    [isProcessing |-> FALSE, progress |-> 0, error |-> <<ErrorMessage>>, results |-> results]

\* The status the catch block sets: it reads neither i nor groupName, which
\* are scoped to the try block.
CaughtStatus ==
    [isProcessing |-> FALSE, progress |-> 0, error |-> <<ErrorMessage>>, results |-> <<>>]

\* "await mergeExcelFiles(groupFiles)" throws: the catch block.
GroupFailed ==
    /\ hpc = "awaiting"
    /\ mpc = "rejected"
    /\ status' = IF Mounted THEN CaughtStatus ELSE status
    /\ hpc' = "done"
    /\ MergeReturned
    /\ UNCHANGED <<mode, keyVars, sortVars, files, closure, groupKeys, gi, results, objectUrls, nextId>>

\* reset: its button is rendered with the results.
Reset ==
    /\ Mounted
    /\ status.results # <<>>
    /\ objectUrls' = [u \in 1..Len(objectUrls) |->
                        IF \E k \in 1..Len(status.results) : status.results[k].url = u
                        THEN [objectUrls[u] EXCEPT !.revoked = TRUE]
                        ELSE objectUrls[u]]
    /\ files' = <<>>
    /\ status' = InitialStatus
    /\ UNCHANGED <<mode, keyVars, sortVars, mergeVars, hpc, closure, groupKeys, gi, results, nextId>>

Init ==
    /\ mode = "app"
    /\ KeyIdle
    /\ SortIdle
    /\ MergeIdle
    /\ AppMounted

Next ==
    \/ OnFileChange
    \/ RemoveFile
    \/ RemoveGroup
    \/ ClearAll
    \/ HandleMergeAll
    \/ MergeReadFile
    \/ MergeDecodeFails
    \/ GroupMerged
    \/ GroupFailed
    \/ Reset

Spec == Init /\ [][Next]_vars

-----------------------------------------------------------------------------
(* Properties of the batch runner (Spec).                                  *)

\* The groups on whose files mergeExcelFiles has been called in this run.
Attempted == { groupKeys[k] : k \in 1..gi }

\* C1 (as stated): when a batch run has ended, mergeExcelFiles has been
\* invoked on the files of every group of the batch, whether or not an
\* earlier group failed.
C1_AllGroupsAttempted ==
    hpc = "done" => \A k \in 1..Len(groupKeys) : groupKeys[k] \in Attempted

\* C2 (as stated): when a batch run has ended with a failure, status.results
\* has an entry for every group whose merge succeeded.
C2_CompletedResultsKept ==
    (hpc = "done" /\ status.error # <<>>) =>
        \A k \in 1..Len(results) :
            \E n \in 1..Len(status.results) :
                status.results[n].groupName = results[k].groupName

\* The position of the first file with the key in the list.
FirstOccurrence(fileList, key) ==
    Min({ i \in 1..Len(fileList) : fileList[i].groupKey = key })

\* C10 (as stated): groups are merged, and their results listed, in the
\* order in which their keys first occur in the file list.
C10_FirstOccurrenceOrder ==
    hpc # "idle" =>
        /\ \A a, b \in 1..Len(groupKeys) :
              a < b => FirstOccurrence(closure.files, groupKeys[a])
                          < FirstOccurrence(closure.files, groupKeys[b])
        /\ \A k \in 1..Len(results) : results[k].groupName = groupKeys[k]

\* The status in which a run ends when the merge of the group at position
\* k of groupKeys is rejected.
StatusOnFailureOf(k) == CaughtStatus

\* C15 (as stated): the status reached after the failure of a group tells
\* which group failed: it is not the status the failure of another group
\* of the batch would have left.
C15_FailureNamesGroup ==
    (hpc = "done" /\ status.error # <<>>) =>
        \A k \in 1..Len(groupKeys) :
            groupKeys[k] # groupKeys[gi] => status # StatusOnFailureOf(k)

RECURSIVE SumOfFileCounts(_)
SumOfFileCounts(res) ==
    IF res = <<>> THEN 0 ELSE Head(res).fileCount + SumOfFileCounts(Tail(res))

\* status.results has one entry for each group key of the file list, with
\* the number of its files, and the numbers add up to the list's length.
ResultsCover(fileList) ==
    LET res == status.results
    IN /\ { res[n].groupName : n \in 1..Len(res) } =
             { fileList[i].groupKey : i \in 1..Len(fileList) }
       /\ \A m, n \in 1..Len(res) : res[m].groupName = res[n].groupName => m = n
       /\ \A n \in 1..Len(res) :
             res[n].fileCount =
                 Cardinality({ i \in 1..Len(fileList) :
                                 fileList[i].groupKey = res[n].groupName })
       /\ SumOfFileCounts(res) = Len(fileList)

\* A batch run has ended, every group merged, and its results are shown.
BatchSucceeded == hpc = "done" /\ status.error = <<>> /\ status.results # <<>>

\* C20 (as stated): after a run in which every group succeeds,
\* status.results covers the uploaded files, the list the component holds.
C20_ResultsCoverUploadedFiles == BatchSucceeded => ResultsCover(files)

\* C20 (amended): after a run in which every group succeeds, status.results
\* covers the files that were in the list when handleMergeAll was invoked.
C20_ResultsCoverBatchFiles == BatchSucceeded => ResultsCover(closure.files)

\* Two groups merged, one of them made of two files.
C20_Witness ==
    /\ BatchSucceeded
    /\ Len(status.results) = 2
    /\ \E n \in 1..2 : status.results[n].fileCount = 2

\* The File objects of the group at position k of groupKeys, as the batch
\* found them in the file list.
BatchGroup(k) ==
    LET HasKey(f) == f.groupKey = groupKeys[k]
        members == SelectSeq(closure.files, HasKey)
    IN [n \in 1..Len(members) |-> members[n].file]

\* The files that have rows in the blocks.
CollectedFrom(groups) ==
    UNION { { groups[b].rows[n].src[1] : n \in 1..Len(groups[b].rows) } :
              b \in 1..Len(groups) }

\* C21: while a batch runs, the one merge under way is that of the group at
\* the loop index, the results of all groups before it are recorded and of
\* no other; within the merge, what has been collected comes from the files
\* before the one being read, and from all of them.
C21_OneGroupAndOneFileAtATime ==
    hpc = "awaiting" =>
        /\ gi \in 1..Len(groupKeys)
        /\ mpc # "idle"
        /\ mfiles = BatchGroup(gi)
        /\ Len(results) = gi - 1
        /\ \A k \in 1..Len(results) :
              /\ results[k].groupName = groupKeys[k]
              /\ results[k].fileCount = Len(BatchGroup(k))
        /\ mj \in 1..Len(mfiles)
        /\ mpc = "reading" =>
              /\ CollectedFrom(koseiGroups) = { mfiles[j].id : j \in 1..(mj - 1) }
              /\ CollectedFrom(naiyoGroups) = { mfiles[j].id : j \in 1..(mj - 1) }

\* The second group of a batch is being merged and its second file is
\* about to be read.
C21_Witness ==
    /\ hpc = "awaiting"
    /\ gi = 2
    /\ mpc = "reading"
    /\ mj = 2

\* The files of the list that carry the key, in list order.
FilesWithKey(fileList, key) ==
    LET HasKey(f) == f.groupKey = key
    IN SelectSeq(fileList, HasKey)

\* groups holds every file of the list in exactly one group, under the key
\* getGroupKey gives its name, in list order, and has no empty group.
IsPartition(groups, fileList) ==
    /\ \A a, b \in 1..Len(groups) : groups[a].key = groups[b].key => a = b
    /\ \A b \in 1..Len(groups) :
          /\ groups[b].files # <<>>
          /\ groups[b].files = FilesWithKey(fileList, groups[b].key)
    /\ \A i \in 1..Len(fileList) :
          /\ fileList[i].groupKey = getGroupKey(fileList[i].name)
          /\ \E b \in 1..Len(groups) : groups[b].key = fileList[i].groupKey

\* C22 (as stated): whatever has been uploaded and removed, groupedFiles has
\* a value, and it is a partition of the current file list.
C22_GroupingIsPartition ==
    mode = "app" =>
        /\ ~groupedFilesThrows(files)
        /\ IsPartition(groupedFiles(files), files)

\* C23: from its invocation to its end a batch run keeps the file list and
\* the grouping it was invoked with; the groups it merges, the files it
\* passes to mergeExcelFiles and the fileCount of its results are those of
\* that list, whatever is uploaded in the meantime.
C23_BatchWorksOnCapturedGrouping ==
    /\ [](hpc \in {"awaiting", "done"} =>
            /\ closure.groupedFiles = groupedFiles(closure.files)
            /\ groupKeys = ObjectKeys(closure.groupedFiles)
            /\ \A k \in 1..Len(results) :
                  /\ results[k].groupName = groupKeys[k]
                  /\ results[k].fileCount = Len(FilesWithKey(closure.files, groupKeys[k]))
            /\ hpc = "awaiting" =>
                  mfiles = [n \in 1..Len(FilesWithKey(closure.files, groupKeys[gi])) |->
                               FilesWithKey(closure.files, groupKeys[gi])[n].file])
    /\ [][hpc = "awaiting" => (closure' = closure /\ groupKeys' = groupKeys)]_vars

\* A batch of two groups has ended well although a file with the key of
\* its second group was uploaded while it ran.
C23_Witness ==
    /\ hpc = "done"
    /\ Len(status.results) = 2
    /\ Len(files) > Len(closure.files)
    /\ files[Len(files)].groupKey = groupKeys[2]

\* k/n as a percentage rounded to the nearest integer, a half rounded up.
Rounded(k, n) ==
    CHOOSE p \in 0..100 : 200 * k - n < 2 * p * n /\ 2 * p * n <= 200 * k + n

\* The next step of a running batch: a file is read or fails to decode, or
\* the outcome of the merge is taken up.
RunStep == MergeReadFile \/ MergeDecodeFails \/ GroupMerged \/ GroupFailed

\* C24 (as stated): a running batch can always take its next step and shows
\* isProcessing with the progress of the groups completed so far; a batch
\* that has ended shows isProcessing false, and progress 100 with its
\* results.
C24_RunEndsAndProgressGrows ==
    /\ hpc = "awaiting" =>
          /\ ENABLED RunStep
          /\ status.isProcessing
          /\ status.progress = Rounded(gi - 1, Len(groupKeys))
    /\ hpc = "done" =>
          /\ ~status.isProcessing
          /\ status.results # <<>> => status.progress = 100

\* C25 (as stated): the step of reset, which takes the results off the
\* status, leaves no object URL unrevoked.
C25_ResetRevokesEveryUrl ==
    [][(status.results # <<>> /\ status' = InitialStatus) =>
          \A u \in 1..Len(objectUrls') : objectUrls'[u].revoked]_vars

\* C26: a status with an error has no results and is not processing; a
\* status with results is not processing and has no error; a processing
\* status has neither an error nor results.
C26_StatusFieldsExclusive ==
    mode = "app" =>
        /\ status.error # <<>> => (status.results = <<>> /\ ~status.isProcessing)
        /\ status.results # <<>> => (~status.isProcessing /\ status.error = <<>>)
        /\ status.isProcessing => (status.error = <<>> /\ status.results = <<>>)

\* A batch has failed after one of its groups had been merged.
C26_Witness ==
    /\ hpc = "done"
    /\ status.error # <<>>
    /\ results # <<>>

====
